---- MODULE Spec2Model ----
(***************************************************************************)
(* A model of watchman's per-root state: the reader/writer lock            *)
(* (watchman_shared_mutex.h), the in-memory view with its recency list,    *)
(* tick stamps and age-out (InMemoryView.h), the query context and result  *)
(* (watchman_query.h) and the kqueue watcher (watcher/kqueue.cpp).         *)
(***************************************************************************)
EXTENDS Integers, Sequences, FiniteSets, TLC

\* ------------------------------------------------------------------ bounds

\* Threads that use the per-root lock.
NThreads == 3

Threads == 1..NThreads

\* The root's tick clock stops at MaxTick in this model.
MaxTick == 4

\* The wall clock (seconds) stops at MaxNow in this model.
MaxNow == 1

\* The largest min_age handed to age_out.
MaxMinAge == 1

\* Where queries are run, the tick clock stops at MaxQueryTick.
MaxQueryTick == 2

\* The watch descriptors the process can have open at a time.
MaxFd == 2

\* The shared_lock objects a program has storage for.
NObjs == 3

\* The holds taken out of shared_lock objects with release() that their
\* callers can have outstanding at a time.
MaxHanded == 2

VARIABLES
    rwlock_,    \* shared_timed_mutex::rwlock_: the threads holding it, by mode
    th,         \* per thread: what it holds, the last lock call and its return
    view,       \* the InMemoryView of the root
    ticks,      \* the root's tick clock
    now,        \* the wall clock, in seconds
    last,       \* the operation the last step performed, with its arguments
    ing,        \* the ingestion thread: where it is in its batch
    qs,         \* the query threads: where each is in its query
    applied,    \* the files created so far, in the order they were applied
    kq,         \* the kqueue watcher, its descriptors and the kernel queue
    cn,         \* the notify thread: where it is in consumeNotify
    sw,         \* the io thread: where it is in startWatchFile / startWatchDir
    coll,       \* the pending collection consumeNotify is called with
    root,       \* the root's cancelled flag
    client,     \* the outcome of the client's current lock attempt
    sl          \* shared_lock objects over one mutex, and the mutex's holds

lockVars == <<rwlock_, th>>

viewVars == <<view, ticks, now, last>>

concVars == <<ing, qs, applied>>

kqVars == <<kq, cn, sw, coll, root, client>>

slVars == <<sl>>

vars == <<rwlock_, th, view, ticks, now, last, ing, qs, applied,
          kq, cn, sw, coll, root, client, sl>>

\* ------------------------------------------- watchman_shared_mutex.h: mutex

\* pthread_rwlock_wrlock / trywrlock / timedwrlock can take the lock when no
\* thread holds it in either mode.
wrlock_free == rwlock_.writer = {} /\ rwlock_.readers = {}

\* pthread_rwlock_rdlock / tryrdlock / timedrdlock can take the lock when no
\* writer holds it.
rdlock_free == rwlock_.writer = {}

Returned(t, holds, op, ret) ==
    th' = [th EXCEPT ![t] = [holds |-> holds, last |-> op, ret |-> ret]]

\* void lock(): blocks until the exclusive lock is taken.
lock(t) ==
    /\ th[t].holds = "none"
    /\ wrlock_free
    /\ rwlock_' = [rwlock_ EXCEPT !.writer = @ \cup {t}]
    /\ Returned(t, "excl", "lock", TRUE)

\* try_lock with the result of pthread_rwlock_trywrlock ignored.
try_lock_unchecked(t) ==
    /\ th[t].holds = "none"
    /\ rwlock_' = IF wrlock_free THEN [rwlock_ EXCEPT !.writer = @ \cup {t}]
                                 ELSE rwlock_
    /\ Returned(t, "excl", "try_lock", TRUE)

\* bool try_lock(): pthread_rwlock_trywrlock(&rwlock_) == 0.
try_lock(t) ==
    /\ th[t].holds = "none"
    /\ IF wrlock_free
          THEN /\ rwlock_' = [rwlock_ EXCEPT !.writer = @ \cup {t}]
               /\ Returned(t, "excl", "try_lock", TRUE)
          ELSE /\ UNCHANGED rwlock_
               /\ Returned(t, "none", "try_lock", FALSE)

\* bool try_lock_for(timeout): pthread_rwlock_timedwrlock(&rwlock_, &ts) == 0;
\* the call returns false when the deadline passes with the lock still held.
try_lock_for(t) ==
    /\ th[t].holds = "none"
    /\ IF wrlock_free
          THEN /\ rwlock_' = [rwlock_ EXCEPT !.writer = @ \cup {t}]
               /\ Returned(t, "excl", "try_lock_for", TRUE)
          ELSE /\ UNCHANGED rwlock_
               /\ Returned(t, "none", "try_lock_for", FALSE)

\* void unlock(): pthread_rwlock_unlock(&rwlock_) by the exclusive holder.
unlock(t) ==
    /\ th[t].holds = "excl"
    /\ rwlock_' = [rwlock_ EXCEPT !.writer = @ \ {t}]
    /\ Returned(t, "none", "unlock", TRUE)

\* void lock_shared(): blocks until a shared hold is taken.
lock_shared(t) ==
    /\ th[t].holds = "none"
    /\ rdlock_free
    /\ rwlock_' = [rwlock_ EXCEPT !.readers = @ \cup {t}]
    /\ Returned(t, "shared", "lock_shared", TRUE)

\* bool try_lock_shared(): pthread_rwlock_tryrdlock(&rwlock_) == 0.
try_lock_shared(t) ==
    /\ th[t].holds = "none"
    /\ IF rdlock_free
          THEN /\ rwlock_' = [rwlock_ EXCEPT !.readers = @ \cup {t}]
               /\ Returned(t, "shared", "try_lock_shared", TRUE)
          ELSE /\ UNCHANGED rwlock_
               /\ Returned(t, "none", "try_lock_shared", FALSE)

\* try_lock_shared_for with the result of pthread_rwlock_timedrdlock ignored.
try_lock_shared_for_unchecked(t) ==
    /\ th[t].holds = "none"
    /\ rwlock_' = IF rdlock_free THEN [rwlock_ EXCEPT !.readers = @ \cup {t}]
                                 ELSE rwlock_
    /\ Returned(t, "shared", "try_lock_shared_for", TRUE)

\* bool try_lock_shared_for(timeout): pthread_rwlock_timedrdlock(...) == 0.
try_lock_shared_for(t) ==
    /\ th[t].holds = "none"
    /\ IF rdlock_free
          THEN /\ rwlock_' = [rwlock_ EXCEPT !.readers = @ \cup {t}]
               /\ Returned(t, "shared", "try_lock_shared_for", TRUE)
          ELSE /\ UNCHANGED rwlock_
               /\ Returned(t, "none", "try_lock_shared_for", FALSE)

\* void unlock_shared(): pthread_rwlock_unlock(&rwlock_) by a shared holder.
unlock_shared(t) ==
    /\ th[t].holds = "shared"
    /\ rwlock_' = [rwlock_ EXCEPT !.readers = @ \ {t}]
    /\ Returned(t, "none", "unlock_shared", TRUE)

\* shared_timed_mutex(): pthread_rwlock_init leaves the lock free.
InitLock ==
    /\ rwlock_ = [writer |-> {}, readers |-> {}]
    /\ th = [t \in Threads |-> [holds |-> "none", last |-> "init", ret |-> TRUE]]

\* ------------------------------------- watchman_shared_mutex.h: shared_lock

Objs == 1..NObjs

\* The values a shared_lock's m_ can have: null, the address of the mutex,
\* or some other address.
MutexPtrs == {"null", "m", "wild"}

\* Storage that holds no shared_lock object.
NoObject == [live |-> FALSE, m_ |-> "null", owned_ |-> FALSE]

\* m_->lock_shared() and m_->unlock_shared() on the one mutex: its number of
\* shared holds goes up and down by one.
m_lock_shared(S) == [S EXCEPT !.holds = @ + 1]

m_unlock_shared(S) == [S EXCEPT !.holds = @ - 1]

\* unlock() without the test of owned_.
shared_lock_unlock_unguarded(S, o) ==
    [m_unlock_shared(S) EXCEPT !.obj[o].owned_ = FALSE]

\* void unlock(): if (owned_) { m_->unlock_shared(); owned_ = false; }
shared_lock_unlock(S, o) ==
    IF S.obj[o].owned_
    THEN [m_unlock_shared(S) EXCEPT !.obj[o].owned_ = FALSE]
    ELSE S

\* void swap(shared_lock& u): nothing for this == &u, else m_ and owned_ are
\* exchanged.
shared_lock_swap(S, o, u) ==
    IF o = u THEN S
    ELSE [S EXCEPT !.obj[o].m_ = S.obj[u].m_,
                   !.obj[o].owned_ = S.obj[u].owned_,
                   !.obj[u].m_ = S.obj[o].m_,
                   !.obj[u].owned_ = S.obj[o].owned_]

\* explicit shared_lock(mutex_type& m): m_(&m), owned_(false), then
\* lock_shared and owned_ = true.
shared_lock_ctor(o) ==
    /\ ~sl.obj[o].live
    /\ sl' = [m_lock_shared(sl) EXCEPT
                 !.obj[o] = [live |-> TRUE, m_ |-> "m", owned_ |-> TRUE]]

\* unlock() called on a live object.
shared_lock_unlock_call(o) ==
    /\ sl.obj[o].live
    /\ sl' = shared_lock_unlock(sl, o)

\* ~shared_lock(): unlock(), and the object is gone.
shared_lock_dtor(o) ==
    /\ sl.obj[o].live
    /\ sl' = [shared_lock_unlock(sl, o) EXCEPT !.obj[o] = NoObject]

\* swap(u) called on two live objects, which can be one and the same.
shared_lock_swap_call(o, u) ==
    /\ sl.obj[o].live /\ sl.obj[u].live
    /\ sl' = shared_lock_swap(sl, o, u)

\* mutex_type* release(): m_ becomes null and owned_ false; a hold the
\* object owned is from now on the caller's.
shared_lock_release(o) ==
    /\ sl.obj[o].live
    /\ sl.obj[o].owned_ => sl.handed < MaxHanded
    /\ sl' = [sl EXCEPT !.obj[o].m_ = "null",
                        !.obj[o].owned_ = FALSE,
                        !.handed = IF sl.obj[o].owned_ THEN @ + 1 ELSE @]

\* The caller of release() gives back a hold it was handed, with
\* unlock_shared on the mutex release() returned.
released_unlock_shared ==
    /\ sl.handed > 0
    /\ sl' = [m_unlock_shared(sl) EXCEPT !.handed = @ - 1]

\* shared_lock(shared_lock&& u): no member initialiser for m_, so m_ starts
\* with whatever the storage held (ptr), owned_ with its default false;
\* then swap(u).
shared_lock_move_ctor(o, u, ptr) ==
    /\ ~sl.obj[o].live
    /\ sl.obj[u].live
    /\ sl' = shared_lock_swap(
                [sl EXCEPT !.obj[o] = [live |-> TRUE, m_ |-> ptr, owned_ |-> FALSE]],
                o, u)

\* shared_lock& operator=(shared_lock&& u): nothing for this == &u, else
\* swap(u).
shared_lock_move_assign(o, u) ==
    /\ sl.obj[o].live /\ sl.obj[u].live
    /\ sl' = IF o = u THEN sl ELSE shared_lock_swap(sl, o, u)

\* No shared_lock object yet, and no hold on the mutex.
InitSl == sl = [obj |-> [o \in Objs |-> NoObject], holds |-> 0, handed |-> 0]


\* ------------------------------------------------- InMemoryView.h: the view

\* Path keys are sequences of characters; a directory is the sequence of the
\* names below the root that lead to it, a file its directory and its name.
RootDir == <<>>

DirD == << <<"d">> >>

Dirs == {RootDir, DirD}

FileKeys ==
    { <<RootDir, <<"a", ".", "c">>>>,
      <<RootDir, <<"b", ".", "C">>>>,
      <<DirD, <<"x">>>> }

ParentDir(d) == SubSeq(d, 1, Len(d) - 1)

\* The directories on the way from the root to d, d included.
RECURSIVE Ancestors(_)
Ancestors(d) == IF d = RootDir THEN {RootDir} ELSE {d} \cup Ancestors(ParentDir(d))

\* Every order in which a directory's hash map may hand out its files: the
\* orders of all files that differ in the order of two files of one
\* directory (directories themselves are kept shallowest first).
Orders ==
    { o \in [1..Cardinality(FileKeys) -> FileKeys] :
         /\ \A i, j \in DOMAIN o : i # j => o[i] # o[j]
         /\ \A i, j \in DOMAIN o : i < j => Len(o[i][1]) <= Len(o[j][1]) }

SeqToSet(s) == { s[i] : i \in DOMAIN s }

RECURSIVE Without(_, _)
Without(s, x) ==
    IF s = <<>> THEN <<>>
    ELSE IF Head(s) = x THEN Without(Tail(s), x)
    ELSE <<Head(s)>> \o Without(Tail(s), x)

Lower(c) == IF c = "C" THEN "c" ELSE c

\* The part of a name after its last dot, in lower case; <<>> when the name
\* has no dot.
RECURSIVE SuffixOf(_)
SuffixOf(name) ==
    IF name = <<>> THEN <<>>
    ELSE IF \E i \in DOMAIN Tail(name) : Tail(name)[i] = "." THEN SuffixOf(Tail(name))
    ELSE IF Head(name) = "." THEN [i \in DOMAIN Tail(name) |-> Lower(Tail(name)[i])]
    ELSE <<>>

Tracked(V) == DOMAIN V.files

FilesOf(V, d) == { f \in Tracked(V) : f[1] = d }

SubdirsOf(V, d) == { c \in V.dirs : c # RootDir /\ ParentDir(c) = d }

\* InMemoryView(root_path): an empty root directory, no file, tick 0.
InitView ==
    [ dirs |-> {RootDir},
      last_check_existed |-> [d \in Dirs |-> TRUE],
      files |-> << >>,
      recency |-> << >>,
      suffixes |-> << >>,
      mostRecentTick_ |-> 0,
      last_age_out_tick |-> 0,
      last_age_out_timestamp |-> 0 ]

\* resolveDir(dirname, create = true): the directory and the ones leading to
\* it are materialised.
resolveDir(V, d) == [V EXCEPT !.dirs = @ \cup Ancestors(d)]

\* insertAtHeadOfFileList(file)
insertAtHeadOfFileList_tail(V, f) == [V EXCEPT !.recency = @ \o <<f>>]

insertAtHeadOfFileList(V, f) == [V EXCEPT !.recency = <<f>> \o @]

\* The link made again for a file that is in its bucket already.
linkSuffix_again(V, f) ==
    LET s == SuffixOf(f[2])
        bucket == IF s \in DOMAIN V.suffixes THEN V.suffixes[s] ELSE << >>
    IN  IF s = <<>> THEN V
        ELSE [V EXCEPT !.suffixes =
                 [k \in DOMAIN V.suffixes \cup {s} |->
                     IF k = s THEN <<f>> \o bucket ELSE V.suffixes[k]]]

\* The file's suffix bucket gains the file at its head unless the file has no
\* suffix or is linked there already; the bucket is made on demand.
linkSuffix(V, f) ==
    LET s == SuffixOf(f[2])
        bucket == IF s \in DOMAIN V.suffixes THEN V.suffixes[s] ELSE << >>
    IN  IF s = <<>> \/ f \in SeqToSet(bucket) THEN V
        ELSE [V EXCEPT !.suffixes =
                 [k \in DOMAIN V.suffixes \cup {s} |->
                     IF k = s THEN <<f>> \o bucket ELSE V.suffixes[k]]]

\* The first part of markFileChanged(file, now, tick): the file is stamped,
\* moved to the head of the recency list and linked in its suffix bucket.
stampAndLink(V, f, tm, tick) ==
    LET stamped == [V EXCEPT !.files[f].otime = [tick |-> tick, timestamp |-> tm]]
        unlinked == [stamped EXCEPT !.recency = Without(@, f)]
    IN  linkSuffix(insertAtHeadOfFileList(unlinked, f), f)

\* The last part of markFileChanged: the tick becomes the most recently
\* observed tick of an item in the view.
setMostRecentTick_keep(V, tick) == V

setMostRecentTick(V, tick) == [V EXCEPT !.mostRecentTick_ = tick]

\* markFileChanged(file, now, tick)
markFileChanged(V, f, tm, tick) ==
    setMostRecentTick(stampAndLink(V, f, tm, tick), tick)

\* getOrCreateChildFile(dir, file_name, now, tick): the child if the
\* directory's files map has it, else a new entry first observed at tick
\* (ctime.timestamp, which nothing in this model reads, is left out).
getOrCreateChildFile(V, f, tm, tick) ==
    IF f \in Tracked(V) THEN V
    ELSE [V EXCEPT !.files =
             [k \in Tracked(V) \cup {f} |->
                 IF k = f
                    THEN [ exists |-> FALSE,
                           otime |-> [tick |-> 0, timestamp |-> 0],
                           ctime |-> [tick |-> tick] ]
                    ELSE V.files[k]]]

\* The files of d in the order the map iteration ord hands them out.
RECURSIVE InOrder(_, _)
InOrder(ord, S) ==
    IF ord = <<>> THEN <<>>
    ELSE IF Head(ord) \in S THEN <<Head(ord)>> \o InOrder(Tail(ord), S)
    ELSE InOrder(Tail(ord), S)

\* The files unlinked from their parent's map and from the recency list at
\* once, instead of stamped.
markFilesDeleted_unlink(V, fs, tm, tick) ==
    [V EXCEPT !.recency = SelectSeq(@, LAMBDA f : f \notin SeqToSet(fs)),
              !.suffixes = [k \in DOMAIN @ |->
                              SelectSeq(@[k], LAMBDA f : f \notin SeqToSet(fs))],
              !.files = [k \in Tracked(V) \ SeqToSet(fs) |-> V.files[k]]]

RECURSIVE markFilesDeleted(_, _, _, _)
markFilesDeleted(V, fs, tm, tick) ==
    IF fs = <<>> THEN V
    ELSE markFilesDeleted(
             markFileChanged([V EXCEPT !.files[Head(fs)].exists = FALSE],
                             Head(fs), tm, tick),
             Tail(fs), tm, tick)

\* A set as a sequence, in some fixed order.
RECURSIVE SetToSeq(_)
SetToSeq(S) ==
    IF S = {} THEN <<>>
    ELSE LET x == CHOOSE x \in S : TRUE IN <<x>> \o SetToSeq(S \ {x})

\* The directories todo and all those below them, depth first.
RECURSIVE WalkDirs(_, _)
WalkDirs(V, todo) ==
    IF todo = <<>> THEN <<>>
    ELSE <<Head(todo)>>
            \o WalkDirs(V, SetToSeq(SubdirsOf(V, Head(todo))) \o Tail(todo))

RECURSIVE markDirsDeleted(_, _, _, _, _)
markDirsDeleted(V, ds, tm, tick, ord) ==
    IF ds = <<>> THEN V
    ELSE markDirsDeleted(
             [markFilesDeleted(V, InOrder(ord, FilesOf(V, Head(ds))), tm, tick)
                 EXCEPT !.last_check_existed[Head(ds)] = FALSE],
             Tail(ds), tm, tick, ord)

\* markDirDeleted(dir, now, tick, recursive): every file of the directory is
\* stamped as non-existent with the one tick handed in, then, if recursive,
\* the same is done to the directories below it. The files stay in their
\* parent's map.
markDirDeleted(V, d, tm, tick, recursive, ord) ==
    markDirsDeleted(V, IF recursive THEN WalkDirs(V, <<d>>) ELSE <<d>>,
                    tm, tick, ord)

\* The file is old enough for age-out and is a tombstone.
Reapable(V, f, tm, minAge) ==
    tm - V.files[f].otime.timestamp > minAge /\ ~V.files[f].exists

\* How many files the walk from the tail reaps: it stops at the first file
\* that exists or is not older than minAge.
RECURSIVE ReapCount(_, _, _, _)
ReapCount(V, list, tm, minAge) ==
    IF list = <<>> THEN 0
    ELSE IF Reapable(V, list[Len(list)], tm, minAge)
         THEN ReapCount(V, SubSeq(list, 1, Len(list) - 1), tm, minAge) + 1
         ELSE 0

\* ageOutFile(dirs_to_erase, file): the file leaves the recency list, its
\* suffix bucket and its parent's files map.
ageOutFile(V, f) ==
    [V EXCEPT !.recency = Without(@, f),
              !.suffixes = [k \in DOMAIN @ |-> Without(@[k], f)],
              !.files = [k \in Tracked(V) \ {f} |-> V.files[k]]]

RECURSIVE ageOutFiles(_, _)
ageOutFiles(V, fs) ==
    IF fs = <<>> THEN V ELSE ageOutFiles(ageOutFile(V, Head(fs)), Tail(fs))

\* A collected directory that is empty and did not exist at its last check
\* leaves its parent's subdirs, and its parent is looked at in turn.
RECURSIVE pruneDir(_, _)
pruneDir(V, d) ==
    IF /\ d # RootDir
       /\ d \in V.dirs
       /\ FilesOf(V, d) = {}
       /\ SubdirsOf(V, d) = {}
       /\ ~V.last_check_existed[d]
       THEN pruneDir([V EXCEPT !.dirs = @ \ {d}], ParentDir(d))
       ELSE V

RECURSIVE pruneDirs(_, _)
pruneDirs(V, ds) ==
    IF ds = <<>> THEN V ELSE pruneDirs(pruneDir(V, Head(ds)), Tail(ds))

\* ageOut(sample, minAge) at wall-clock time tm.
ageOut(V, tm, minAge) ==
    LET n == ReapCount(V, V.recency, tm, minAge)
        reaped == SubSeq(V.recency, Len(V.recency) - n + 1, Len(V.recency))
        swept == ageOutFiles(V, reaped)
        pruned == pruneDirs(swept, SetToSeq({ f[1] : f \in SeqToSet(reaped) }))
    IN  [pruned EXCEPT !.last_age_out_tick = V.mostRecentTick_,
                       !.last_age_out_timestamp = tm]

\* ------------------------------------------------------ ingestion pipeline

Did(op, args) == last' = [op |-> op] @@ args

\* A pending entry for a path that stats as a file whose size, mtime or
\* inode changed (a file seen for the first time is such a file): the tick
\* advances, the file is found or created, marked existing and stamped.
IngestFileChanged(f) ==
    /\ ticks < MaxTick
    /\ ticks' = ticks + 1
    /\ view' = LET dir == [resolveDir(view, f[1]) EXCEPT
                              !.last_check_existed =
                                  [d \in Dirs |-> IF d \in Ancestors(f[1])
                                                     THEN TRUE ELSE @[d]]]
                   made == getOrCreateChildFile(dir, f, now, ticks')
               IN  markFileChanged([made EXCEPT !.files[f].exists = TRUE],
                                   f, now, ticks')
    /\ Did("IngestFileChanged", [file |-> f])
    /\ UNCHANGED now

\* A pending entry for a tracked file whose stat fields are as they were:
\* the file is marked existing and its otime is stamped with the tick, the
\* most recently observed one; its place in the recency list is kept.
IngestFileUnchanged(f) ==
    /\ ticks < MaxTick
    /\ f \in Tracked(view)
    /\ ticks' = ticks + 1
    /\ view' = [view EXCEPT !.files[f].exists = TRUE,
                            !.files[f].otime = [tick |-> ticks', timestamp |-> now],
                            !.mostRecentTick_ = ticks']
    /\ Did("IngestFileUnchanged", [file |-> f])
    /\ UNCHANGED now

\* A pending entry for a tracked file whose stat fails with ENOENT or
\* ENOTDIR: the file is marked deleted.
IngestFileDeleted(f) ==
    /\ ticks < MaxTick
    /\ f \in Tracked(view)
    /\ ticks' = ticks + 1
    /\ view' = markFileChanged([view EXCEPT !.files[f].exists = FALSE],
                               f, now, ticks')
    /\ Did("IngestFileDeleted", [file |-> f])
    /\ UNCHANGED now

\* A pending entry for a directory whose stat fails: the directory is marked
\* deleted, with its subdirectories when the entry is recursive.
IngestDirDeleted(d, recursive, ord) ==
    /\ ticks < MaxTick
    /\ d \in view.dirs
    /\ ticks' = ticks + 1
    /\ view' = markDirDeleted(view, d, now, ticks', recursive, ord)
    /\ Did("IngestDirDeleted", [dir |-> d, recursive |-> recursive])
    /\ UNCHANGED now

\* The reaper runs with min_age = minAge.
AgeOut(minAge) ==
    /\ view' = ageOut(view, now, minAge)
    /\ Did("AgeOut", [min_age |-> minAge])
    /\ UNCHANGED <<ticks, now>>

\* A second passes.
ClockAdvance ==
    /\ now < MaxNow
    /\ now' = now + 1
    /\ Did("ClockAdvance", << >>)
    /\ UNCHANGED <<view, ticks>>

InitViewVars ==
    /\ view = InitView
    /\ ticks = 0
    /\ now = 0
    /\ last = [op |-> "init"]


\* ---------------------------------------------- watchman_query.h: queries

\* The wholename of a file: the path of its directory, then its name.
Wholename(f) == f[1] \o <<f[2]>>

\* The suffix every suffix query of this model asks for.
SuffixC == <<"c">>

\* struct w_query, for the queries this model runs: since is a tick, or -1
\* when the query has no since_spec; no relative root, no glob.
MkQuery(since, empty, dedup, paths, suffixes, expr) ==
    [ since |-> since,
      empty_on_fresh_instance |-> empty,
      dedup_results |-> dedup,
      paths |-> paths,
      suffixes |-> suffixes,
      expr |-> expr ]

Queries ==
    { MkQuery(t, e, FALSE, <<>>, <<>>, "true") :
          t \in 0..MaxTick, e \in BOOLEAN }
    \cup { MkQuery(-1, FALSE, d,
                   << [name |-> RootDir, depth |-> -1],
                      [name |-> RootDir, depth |-> 1],
                      [name |-> DirD, depth |-> 0] >>,
                   <<>>, x) :
              d \in BOOLEAN, x \in {"exists", "suffix"} }
    \cup { MkQuery(-1, FALSE, d, <<>>, <<SuffixC, SuffixC>>, "true") :
              d \in BOOLEAN }
    \cup { MkQuery(-1, FALSE, FALSE, <<>>, <<>>, "true") }

\* w_query_since for the query: a since tick that precedes the last age-out
\* makes the query a fresh instance, which looks at every file.
resolveSince_le(V, q) ==
    IF q.since = -1 THEN [is_fresh_instance |-> FALSE, ticks |-> 0]
    ELSE IF q.since <= V.last_age_out_tick
         THEN [is_fresh_instance |-> TRUE, ticks |-> 0]
         ELSE [is_fresh_instance |-> FALSE, ticks |-> q.since]

resolveSince(V, q) ==
    IF q.since = -1 THEN [is_fresh_instance |-> FALSE, ticks |-> 0]
    ELSE IF q.since < V.last_age_out_tick
         THEN [is_fresh_instance |-> TRUE, ticks |-> 0]
         ELSE [is_fresh_instance |-> FALSE, ticks |-> q.since]

\* QueryExpr::evaluate(ctx, file), for the expressions of this model: true,
\* exists, and suffix with the suffix SuffixC.
evaluate(V, expr, f) ==
    CASE expr = "exists" -> V.files[f].exists
      [] expr = "suffix" -> SuffixOf(f[2]) = SuffixC
      [] OTHER -> TRUE

\* timeGenerator: the recency list from its head, up to the first file whose
\* otime.tick is below the since tick.
RECURSIVE timeGenerator(_, _, _)
timeGenerator(V, list, since) ==
    IF list = <<>> THEN <<>>
    ELSE IF V.files[Head(list)].otime.tick < since.ticks THEN <<>>
    ELSE <<Head(list)>> \o timeGenerator(V, Tail(list), since)

\* suffixGenerator: for each suffix of the query, that suffix's list.
RECURSIVE suffixGenerator(_, _)
suffixGenerator(V, sfx) ==
    IF sfx = <<>> THEN <<>>
    ELSE (IF Head(sfx) \in DOMAIN V.suffixes THEN V.suffixes[Head(sfx)] ELSE <<>>)
            \o suffixGenerator(V, Tail(sfx))

\* dirGenerator: the files of the directories todo, each with the depth left
\* to it: a depth of -1 is unbounded, a depth of 0 stops at the directory's
\* own entry, which is no file of this model.
RECURSIVE dirGenerator(_, _)
dirGenerator(V, todo) ==
    IF todo = <<>> THEN <<>>
    ELSE LET d == Head(todo).name
             depth == Head(todo).depth
             kids == SetToSeq(SubdirsOf(V, d))
             below == [i \in DOMAIN kids |->
                          [name |-> kids[i],
                           depth |-> IF depth = -1 THEN -1 ELSE depth - 1]]
         IN  IF depth = 0 THEN dirGenerator(V, Tail(todo))
             ELSE SetToSeq(FilesOf(V, d)) \o dirGenerator(V, below \o Tail(todo))

\* pathGenerator: for each (path, depth) of the query, the file of that name
\* if there is one, else the files of that directory and of those below it,
\* depth levels down.
RECURSIVE pathGenerator(_, _)
pathGenerator(V, paths) ==
    IF paths = <<>> THEN <<>>
    ELSE LET p == Head(paths)
             named == { f \in Tracked(V) : Wholename(f) = p.name }
         IN  (IF named # {} THEN SetToSeq(named)
              ELSE IF p.name \in V.dirs THEN dirGenerator(V, <<p>>)
              ELSE <<>>)
                \o pathGenerator(V, Tail(paths))

\* allFilesGenerator: the whole tree, depth first.
allFilesGenerator(V) == dirGenerator(V, <<[name |-> RootDir, depth |-> -1]>>)

\* The generator the query selects, as the candidates it yields in order.
generate(V, q, since) ==
    IF q.paths # <<>> THEN pathGenerator(V, q.paths)
    ELSE IF q.suffixes # <<>> THEN suffixGenerator(V, q.suffixes)
    ELSE IF q.since # -1 THEN timeGenerator(V, V.recency, since)
    ELSE allFilesGenerator(V)

\* w_query_ctx(q, lock)
InitCtx == [results |-> <<>>, dedup |-> {}, num_deduped |-> 0]

\* w_query_process_file(query, ctx, file): the file is skipped unless the
\* expression accepts it; with dedup_results a wholename already in the
\* dedup set is counted and skipped; else the match joins the results.
w_query_process_file_nodedup(V, q, since, ctx, f) ==
    IF ~evaluate(V, q.expr, f) THEN ctx
    ELSE [ctx EXCEPT
             !.results = Append(@, [relname |-> Wholename(f),
                                    is_new |-> V.files[f].ctime.tick > since.ticks,
                                    file |-> f])]

w_query_process_file(V, q, since, ctx, f) ==
    IF ~evaluate(V, q.expr, f) THEN ctx
    ELSE IF q.dedup_results /\ Wholename(f) \in ctx.dedup
         THEN [ctx EXCEPT !.num_deduped = @ + 1]
         ELSE [ctx EXCEPT
                  !.results = Append(@, [relname |-> Wholename(f),
                                         is_new |-> V.files[f].ctime.tick > since.ticks,
                                         file |-> f]),
                  !.dedup = IF q.dedup_results THEN @ \cup {Wholename(f)} ELSE @]

RECURSIVE processFiles(_, _, _, _, _)
processFiles(V, q, since, ctx, cands) ==
    IF cands = <<>> THEN ctx
    ELSE processFiles(V, q, since,
                      w_query_process_file(V, q, since, ctx, Head(cands)),
                      Tail(cands))

\* w_query_execute(query, root, results, generator): the w_query_result, with
\* the context it was built from and the candidates the generator yielded.
w_query_execute(V, q) ==
    LET since == resolveSince(V, q)
        empty == since.is_fresh_instance /\ q.empty_on_fresh_instance
        cands == IF empty THEN <<>> ELSE generate(V, q, since)
        ctx == processFiles(V, q, since, InitCtx, cands)
    IN  [ is_fresh_instance |-> since.is_fresh_instance,
          results |-> ctx.results,
          ticks |-> V.mostRecentTick_,
          num_deduped |-> ctx.num_deduped,
          walked |-> cands ]

\* A client runs query q against the view.
Query(q) ==
    /\ Did("Query", [query |-> q, result |-> w_query_execute(view, q)])
    /\ UNCHANGED <<view, ticks, now>>

\* The client takes the result of its query.
QueryReturn ==
    /\ last.op = "Query"
    /\ Did("QueryReturn", << >>)
    /\ UNCHANGED <<view, ticks, now>>

\* No query result is waiting for its client.
Served == last.op # "Query"

\* ------------------------------- ingestion and queries under the root lock

\* The thread that ingests, and the threads that query.
IngestThread == 1

QueryThreads == {2, 3}

\* The query {since: 0}.
SinceZero == MkQuery(0, FALSE, FALSE, <<>>, <<>>, "true")

\* The ingestion thread takes the root lock for a batch of pending entries.
IngLock ==
    /\ ing.pc = "idle"
    /\ lock(IngestThread)
    /\ ing' = [ing EXCEPT !.pc = "locked"]
    /\ UNCHANGED <<viewVars, qs, applied>>

\* It applies the creation of file f: the tick advances and the new file is
\* stamped and linked ...
IngCreate(f) ==
    /\ ing.pc = "locked"
    /\ f \notin Tracked(view)
    /\ ticks < MaxTick
    /\ ticks' = ticks + 1
    /\ view' = LET made == getOrCreateChildFile(resolveDir(view, f[1]), f, now, ticks')
               IN  stampAndLink([made EXCEPT !.files[f].exists = TRUE], f, now, ticks')
    /\ ing' = [ing EXCEPT !.pc = "stamped"]
    /\ applied' = Append(applied, f)
    /\ Did("IngCreate", [file |-> f])
    /\ UNCHANGED <<lockVars, now, qs>>

\* ... and then the tick is made the view's most recent one.
IngPublish ==
    /\ ing.pc = "stamped"
    /\ view' = setMostRecentTick(view, ticks)
    /\ ing' = [ing EXCEPT !.pc = "locked"]
    /\ Did("IngPublish", << >>)
    /\ UNCHANGED <<lockVars, ticks, now, qs, applied>>

\* The batch is done: the ingestion thread releases the root lock.
IngUnlock ==
    /\ ing.pc = "locked"
    /\ unlock(IngestThread)
    /\ ing' = [ing EXCEPT !.pc = "idle"]
    /\ UNCHANGED <<viewVars, qs, applied>>

\* Step 1 of a query: its since-spec is resolved against the root.
QResolve(t) ==
    /\ qs[t].pc = "idle"
    /\ qs' = [qs EXCEPT ![t] = [pc |-> "resolved",
                                since |-> resolveSince(view, SinceZero)]]
    /\ UNCHANGED <<lockVars, viewVars, ing, applied>>

\* Step 2: the shared lock is taken, within the query's lock_timeout or not
\* at all.
QLock(t) ==
    /\ qs[t].pc = "resolved"
    /\ try_lock_shared_for(t)
    /\ qs' = [qs EXCEPT ![t].pc = IF th'[t].ret THEN "locked" ELSE "timeout"]
    /\ UNCHANGED <<viewVars, ing, applied>>

\* Steps 3 and 4: the generator runs and every candidate is processed.
QGenerate(t) ==
    /\ qs[t].pc = "locked"
    /\ qs' = [qs EXCEPT ![t] =
                 [pc |-> "generated",
                  since |-> qs[t].since,
                  ctx |-> processFiles(view, SinceZero, qs[t].since, InitCtx,
                                       generate(view, SinceZero, qs[t].since))]]
    /\ UNCHANGED <<lockVars, viewVars, ing, applied>>

\* Step 5: the lock is released ...
QUnlock(t) ==
    /\ qs[t].pc = "generated"
    /\ unlock_shared(t)
    /\ qs' = [qs EXCEPT ![t].pc = "released"]
    /\ UNCHANGED <<viewVars, ing, applied>>

\* ... and the result is returned with the view's most recent tick.
QReturn(t) ==
    /\ qs[t].pc = "released"
    /\ qs' = [qs EXCEPT ![t] =
                 [pc |-> "done",
                  result |-> [is_fresh_instance |-> qs[t].since.is_fresh_instance,
                              results |-> qs[t].ctx.results,
                              ticks |-> view.mostRecentTick_]]]
    /\ UNCHANGED <<lockVars, viewVars, ing, applied>>

InitConc ==
    /\ ing = [pc |-> "idle"]
    /\ qs = [t \in QueryThreads |-> [pc |-> "idle"]]
    /\ applied = <<>>

\* ------------------------------------------- watcher/kqueue.cpp: the watcher

Fds == 1..MaxFd

\* The root's path, and the directories and files the crawler watches.
root_path == <<"r">>

WatchDirs == {root_path}

WatchFiles == {[parent |-> root_path, name |-> "f"]}

\* w_dir_path_cat_str(file->parent, w_file_get_name(file))
w_dir_path_cat_str(parent, name) == Append(parent, name)

\* The fflags startWatchFile and startWatchDir subscribe to.
FileFflags == {"NOTE_WRITE", "NOTE_DELETE", "NOTE_EXTEND", "NOTE_RENAME", "NOTE_ATTRIB"}

DirFflags == {"NOTE_WRITE", "NOTE_DELETE", "NOTE_EXTEND", "NOTE_RENAME"}

\* The fflags the file system raises here: consumeNotify tells those that
\* remove a watch from the others, and NOTE_WRITE stands for the others.
RaisedFflags == {"NOTE_WRITE", "NOTE_DELETE", "NOTE_RENAME"}

\* fflags & (NOTE_DELETE|NOTE_RENAME|NOTE_REVOKE)
removes(fflags) == fflags \cap {"NOTE_DELETE", "NOTE_RENAME", "NOTE_REVOKE"} # {}

\* The test that cancels the root, with NOTE_DELETE alone in the mask.
root_removed_delete_only(fflags, path) ==
    "NOTE_DELETE" \in fflags /\ path = root_path

\* (fflags & (NOTE_DELETE|NOTE_RENAME|NOTE_REVOKE)) and
\* w_string_equal(path, root->root_path)
root_removed(fflags, path) == removes(fflags) /\ path = root_path

\* A hash table with key k set to v, and with key k removed.
Put(m, k, v) == [x \in DOMAIN m \cup {k} |-> IF x = k THEN v ELSE m[x]]

Drop(m, k) == [x \in DOMAIN m \ {k} |-> m[x]]

Empty == << >>

\* close(fd): the descriptor is released, and with it the kernel drops the
\* events registered on it; closing a descriptor that is not open is EBADF.
close(K, fd) ==
    IF fd \in K.open
    THEN [K EXCEPT !.open = @ \ {fd},
                   !.knotes = Drop(@, fd),
                   !.ready = Drop(@, fd)]
    ELSE K

\* kqueue_del_key: the del_val of name_to_fd closes the descriptor.
kqueue_del_key(K, key) == close(K, key)

\* w_ht_replace(name_to_fd, name, fd): a value the table held for the name is
\* deleted with the table's del_val.
name_to_fd_replace(K, name, fd) ==
    LET old == IF name \in DOMAIN K.name_to_fd
               THEN kqueue_del_key(K, K.name_to_fd[name]) ELSE K
    IN  [old EXCEPT !.name_to_fd = Put(@, name, fd)]

\* w_ht_replace(fd_to_name, fd, name)
fd_to_name_replace(K, fd, name) == [K EXCEPT !.fd_to_name = Put(@, fd, name)]

\* w_ht_del(name_to_fd, name)
name_to_fd_del(K, name) ==
    IF name \in DOMAIN K.name_to_fd
    THEN [kqueue_del_key(K, K.name_to_fd[name]) EXCEPT !.name_to_fd = Drop(@, name)]
    ELSE K

\* w_ht_del(fd_to_name, fd)
fd_to_name_del(K, fd) == [K EXCEPT !.fd_to_name = Drop(@, fd)]

\* pthread_mutex_lock(&lock) can return when the mutex is free.
mutex_free == kq.lock = "free"

pthread_mutex_lock(K, who) == [K EXCEPT !.lock = who]

pthread_mutex_unlock(K) == [K EXCEPT !.lock = "free"]

\* open(path, O_EVTONLY|O_CLOEXEC): the lowest descriptor that is not open.
CanOpen(K) == Fds \ K.open # {}

NewFd(K) == CHOOSE fd \in Fds \ K.open : \A g \in Fds \ K.open : fd <= g

open(K) == [K EXCEPT !.open = @ \cup {NewFd(K)}]

\* kevent(kq_fd, &k, 1, ...) with EV_ADD|EV_CLEAR registers the descriptor.
kevent_add(K, fd, fflags, name, is_dir) ==
    [K EXCEPT !.knotes = Put(@, fd, [fflags |-> fflags,
                                    udata |-> [name |-> name, is_dir |-> is_dir]])]

\* kevent(kq_fd, &k, 1, ...) with EV_DELETE removes the registration.
kevent_delete(K, fd) ==
    [K EXCEPT !.knotes = Drop(@, fd), !.ready = Drop(@, fd)]

\* w_root_cancel(root)
w_root_cancel(R) == [R EXCEPT !.cancelled = TRUE]

\* w_root_schedule_recrawl(root, why), kept with the call that asked for it.
w_root_schedule_recrawl(S) == [S EXCEPT !.recrawl = TRUE]

\* w_pending_coll_add(coll, path, now, flags): one entry per path, its flags
\* those of all the adds.
w_pending_coll_add(C, path, flags) ==
    Put(C, path, IF path \in DOMAIN C THEN C[path] \cup flags ELSE flags)

\* The io thread at a call for path: nothing opened, nothing returned yet.
sw_call(path) ==
    [pc |-> "idle", path |-> path, fd |-> 0, ret |-> "none", handled |-> "none",
     recrawl |-> FALSE, opened |-> "none", osdir |-> FALSE]

\* startWatchFile, lines 116-117: the full name is made and the mutex taken.
startWatchFile_lock(file) ==
    /\ sw.pc = "idle"
    /\ mutex_free
    /\ kq' = pthread_mutex_lock(kq, "io")
    /\ sw' = [sw_call(w_dir_path_cat_str(file.parent, file.name))
                 EXCEPT !.pc = "f_lookup"]
    /\ UNCHANGED <<cn, coll, root, client>>

\* The lookup that returns on a hit without releasing the mutex.
startWatchFile_lookup_held ==
    /\ sw.pc = "f_lookup"
    /\ IF sw.path \in DOMAIN kq.name_to_fd
       THEN /\ sw' = [sw EXCEPT !.pc = "idle", !.ret = "true"]
            /\ UNCHANGED kq
       ELSE /\ sw' = [sw EXCEPT !.pc = "f_open"]
            /\ kq' = pthread_mutex_unlock(kq)
    /\ UNCHANGED <<cn, coll, root, client>>

\* The lookup taken as a miss whatever name_to_fd holds.
startWatchFile_lookup_miss ==
    /\ sw.pc = "f_lookup"
    /\ kq' = pthread_mutex_unlock(kq)
    /\ sw' = [sw EXCEPT !.pc = "f_open"]
    /\ UNCHANGED <<cn, coll, root, client>>

\* lines 118-124: a file already in name_to_fd is watched already.
startWatchFile_lookup ==
    /\ sw.pc = "f_lookup"
    /\ kq' = pthread_mutex_unlock(kq)
    /\ sw' = IF sw.path \in DOMAIN kq.name_to_fd
             THEN [sw EXCEPT !.pc = "idle", !.ret = "true"]
             ELSE [sw EXCEPT !.pc = "f_open"]
    /\ UNCHANGED <<cn, coll, root, client>>

\* lines 128-134: the file is opened; a failure returns false.
startWatchFile_open(ok) ==
    /\ sw.pc = "f_open"
    /\ ok => CanOpen(kq)
    /\ IF ok
       THEN /\ kq' = open(kq)
            /\ sw' = [sw EXCEPT !.pc = "f_lock", !.fd = NewFd(kq)]
       ELSE /\ sw' = [sw EXCEPT !.pc = "idle", !.ret = "false"]
            /\ UNCHANGED kq
    /\ UNCHANGED <<cn, coll, root, client>>

\* line 141
startWatchFile_lock2 ==
    /\ sw.pc = "f_lock"
    /\ mutex_free
    /\ kq' = pthread_mutex_lock(kq, "io")
    /\ sw' = [sw EXCEPT !.pc = "f_insert"]
    /\ UNCHANGED <<cn, coll, root, client>>

\* The mutex released with neither map written, so that the registration
\* comes first.
startWatchFile_insert_skipped ==
    /\ sw.pc = "f_insert"
    /\ kq' = pthread_mutex_unlock(kq)
    /\ sw' = [sw EXCEPT !.pc = "f_kevent"]
    /\ UNCHANGED <<cn, coll, root, client>>

\* lines 142-144: both maps get the new watch.
startWatchFile_insert ==
    /\ sw.pc = "f_insert"
    /\ kq' = pthread_mutex_unlock(
                fd_to_name_replace(name_to_fd_replace(kq, sw.path, sw.fd),
                                   sw.fd, sw.path))
    /\ sw' = [sw EXCEPT !.pc = "f_kevent"]
    /\ UNCHANGED <<cn, coll, root, client>>

\* lines 146-149 and 154-159: the descriptor is registered with the queue;
\* when that fails it is closed.
startWatchFile_kevent(ok) ==
    /\ sw.pc = "f_kevent"
    /\ ok => sw.fd \in kq.open
    /\ IF ok
       THEN /\ kq' = kevent_add(kq, sw.fd, FileFflags, sw.path, FALSE)
            /\ sw' = [sw EXCEPT !.pc = "idle", !.fd = 0, !.ret = "true"]
       ELSE /\ kq' = close(kq, sw.fd)
            /\ sw' = [sw EXCEPT !.pc = "f_unlock"]
    /\ UNCHANGED <<cn, coll, root, client>>

\* line 150
startWatchFile_lock3 ==
    /\ sw.pc = "f_unlock"
    /\ mutex_free
    /\ kq' = pthread_mutex_lock(kq, "io")
    /\ sw' = [sw EXCEPT !.pc = "f_del"]
    /\ UNCHANGED <<cn, coll, root, client>>

\* lines 151-153 and 157-159: the maps lose the watch; the call returns true.
startWatchFile_del ==
    /\ sw.pc = "f_del"
    /\ kq' = pthread_mutex_unlock(
                fd_to_name_del(name_to_fd_del(kq, sw.path), sw.fd))
    /\ sw' = [sw EXCEPT !.pc = "idle", !.fd = 0, !.ret = "true"]
    /\ UNCHANGED <<cn, coll, root, client>>

\* w_dir_open(path) and w_dir_close(osdir): the call's directory handle.
w_dir_open(S) == [S EXCEPT !.osdir = TRUE]

w_dir_close(S) == [S EXCEPT !.osdir = FALSE]

\* handle_open_errno(lock, dir, now, syscall, err, nullptr)
handle_open_errno(S, syscall) == [S EXCEPT !.handled = syscall]

\* The openings startWatchDir gives up on, without the comparison of the two
\* stats.
bails_uncompared(outcome) == outcome \in {"opendir", "open", "fstat"}

\* The openings startWatchDir gives up on: opendir failed (174), open failed
\* (181), fstat failed (187), or the two stats differ in st_dev or st_ino (197).
bails(outcome) == outcome \in {"opendir", "open", "fstat", "replaced"}

\* startWatchDir, lines 173-210: the directory is opened with opendir and
\* with open and the two are compared; when it gives up, what it opened is
\* closed and it returns null.
startWatchDir_open(dir, outcome) ==
    /\ sw.pc = "idle"
    /\ outcome \in {"fstat", "replaced", "ok"} => CanOpen(kq)
    /\ LET call == [sw_call(dir) EXCEPT !.opened = outcome]
       IN  IF bails(outcome)
           THEN /\ sw' = [ (CASE outcome = "opendir" ->
                                  handle_open_errno(call, "opendir")
                              [] outcome = "open" ->
                                  w_dir_close(handle_open_errno(w_dir_open(call), "open"))
                              [] outcome = "fstat" ->
                                  w_dir_close(w_root_schedule_recrawl(w_dir_open(call)))
                              [] outcome = "replaced" ->
                                  w_dir_close(handle_open_errno(w_dir_open(call), "open")))
                           EXCEPT !.ret = "null" ]
                /\ kq' = IF outcome \in {"fstat", "replaced"}
                         THEN close(open(kq), NewFd(kq)) ELSE kq
           ELSE /\ sw' = [w_dir_open(call) EXCEPT !.pc = "d_lock", !.fd = NewFd(kq)]
                /\ kq' = open(kq)
    /\ UNCHANGED <<cn, coll, root, client>>

\* line 214
startWatchDir_lock ==
    /\ sw.pc = "d_lock"
    /\ mutex_free
    /\ kq' = pthread_mutex_lock(kq, "io")
    /\ sw' = [sw EXCEPT !.pc = "d_insert"]
    /\ UNCHANGED <<cn, coll, root, client>>

\* lines 215-217: both maps get the new watch.
startWatchDir_insert ==
    /\ sw.pc = "d_insert"
    /\ kq' = pthread_mutex_unlock(
                fd_to_name_replace(name_to_fd_replace(kq, sw.path, sw.fd),
                                   sw.fd, sw.path))
    /\ sw' = [sw EXCEPT !.pc = "d_kevent"]
    /\ UNCHANGED <<cn, coll, root, client>>

\* lines 219-222 and 228-233: the descriptor is registered with the queue;
\* when that fails it is closed.
startWatchDir_kevent(ok) ==
    /\ sw.pc = "d_kevent"
    /\ ok => sw.fd \in kq.open
    /\ IF ok
       THEN /\ kq' = kevent_add(kq, sw.fd, DirFflags, sw.path, TRUE)
            /\ sw' = [sw EXCEPT !.pc = "idle", !.fd = 0, !.ret = "osdir"]
       ELSE /\ kq' = close(kq, sw.fd)
            /\ sw' = [sw EXCEPT !.pc = "d_unlock"]
    /\ UNCHANGED <<cn, coll, root, client>>

\* line 224
startWatchDir_lock3 ==
    /\ sw.pc = "d_unlock"
    /\ mutex_free
    /\ kq' = pthread_mutex_lock(kq, "io")
    /\ sw' = [sw EXCEPT !.pc = "d_del"]
    /\ UNCHANGED <<cn, coll, root, client>>

\* lines 225-227 and 231-233: the maps lose the watch; the handle is returned.
startWatchDir_del ==
    /\ sw.pc = "d_del"
    /\ kq' = pthread_mutex_unlock(
                fd_to_name_del(name_to_fd_del(kq, sw.path), sw.fd))
    /\ sw' = [sw EXCEPT !.pc = "idle", !.fd = 0, !.ret = "osdir"]
    /\ UNCHANGED <<cn, coll, root, client>>

\* stopWatchDir(lock, dir): the body is empty; the io thread has made the
\* call and it has returned.
stopWatchDir(dir) ==
    /\ sw.pc = "idle"
    /\ sw' = [sw_call(dir) EXCEPT !.ret = "void"]
    /\ UNCHANGED <<kq, cn, coll, root, client>>

\* The file system raises fflag fl on a registered descriptor that has no
\* event in the queue.
KernelEvent(fd, fl) ==
    /\ fd \in DOMAIN kq.knotes
    /\ fd \notin DOMAIN kq.ready
    /\ fl \in kq.knotes[fd].fflags
    /\ kq' = [kq EXCEPT !.ready = Put(@, fd, {fl})]
    /\ UNCHANGED <<cn, sw, coll, root, client>>

\* The orders in which the queue can hand over the events of descriptors S.
EventOrders(S) ==
    { o \in UNION { [1..n -> S] : n \in {Cardinality(S)} } :
        \A i, j \in DOMAIN o : i # j => o[i] # o[j] }

\* The watch removal with the fd_to_name entry left behind.
remove_watch_name_only(K, fd, path) == name_to_fd_del(kevent_delete(K, fd), path)

\* lines 303-308: "Remove our watch bits", then both map entries.
remove_watch(K, fd, path) ==
    fd_to_name_del(name_to_fd_del(kevent_delete(K, fd), path), fd)

\* consumeNotify, lines 248-255: kevent moves the queue's events to keventbuf;
\* keventbuf holds here the events from the i-th on, and coll, the caller's
\* collection, begins empty.
consumeNotify_kevent(order) ==
    /\ cn.pc = "idle"
    /\ cn' = [pc |-> "check", n |-> Len(order), path |-> Empty,
              keventbuf |-> [i \in DOMAIN order |->
                               [ident |-> order[i],
                                fflags |-> kq.ready[order[i]],
                                udata |-> kq.knotes[order[i]].udata]],
              ret |-> cn.ret]
    /\ kq' = [kq EXCEPT !.ready = Empty]
    /\ coll' = Empty
    /\ UNCHANGED <<sw, root, client>>

\* lines 262-264: with the root cancelled the call returns 0.
consumeNotify_cancelled ==
    /\ cn.pc = "check"
    /\ cn' = IF root.cancelled
             THEN [cn EXCEPT !.pc = "idle", !.ret = FALSE]
             ELSE [cn EXCEPT !.pc = "loop"]
    /\ UNCHANGED <<kq, sw, coll, root, client>>

\* lines 267-274: the next event's turn begins with the mutex.
consumeNotify_lock ==
    /\ cn.pc = "loop"
    /\ cn.keventbuf # Empty
    /\ mutex_free
    /\ kq' = pthread_mutex_lock(kq, "notify")
    /\ cn' = [cn EXCEPT !.pc = "event"]
    /\ UNCHANGED <<sw, coll, root, client>>

\* lines 275-311: the event's path is looked up; an event that removes the
\* root cancels it and ends the call, one that removes another path ends
\* that path's watch.
consumeNotify_event ==
    /\ cn.pc = "event"
    /\ LET ev == Head(cn.keventbuf)
           fd == ev.ident
       IN  IF fd \notin DOMAIN kq.fd_to_name
           THEN /\ kq' = pthread_mutex_unlock(kq)
                /\ cn' = [cn EXCEPT !.pc = "loop", !.keventbuf = Tail(@)]
                /\ UNCHANGED root
           ELSE LET path == kq.fd_to_name[fd]
                IN  IF root_removed(ev.fflags, path)
                    THEN /\ root' = w_root_cancel(root)
                         /\ kq' = pthread_mutex_unlock(kq)
                         /\ cn' = [cn EXCEPT !.pc = "idle", !.ret = FALSE]
                    ELSE /\ kq' = pthread_mutex_unlock(
                                    IF removes(ev.fflags)
                                    THEN remove_watch(kq, fd, path)
                                    ELSE kq)
                         /\ cn' = [cn EXCEPT !.pc = "add", !.path = path]
                         /\ UNCHANGED root
    /\ UNCHANGED <<sw, coll, client>>

\* lines 312-315: the path goes to the pending collection.
consumeNotify_add ==
    /\ cn.pc = "add"
    /\ coll' = w_pending_coll_add(coll, cn.path,
                  IF Head(cn.keventbuf).udata.is_dir
                  THEN {} ELSE {"W_PENDING_RECURSIVE", "W_PENDING_VIA_NOTIFY"})
    /\ cn' = [cn EXCEPT !.pc = "loop", !.keventbuf = Tail(@), !.path = Empty]
    /\ UNCHANGED <<kq, sw, root, client>>

\* line 317: return n > 0.
consumeNotify_return ==
    /\ cn.pc = "loop"
    /\ cn.keventbuf = Empty
    /\ cn' = [cn EXCEPT !.pc = "idle", !.ret = cn.n > 0]
    /\ UNCHANGED <<kq, sw, coll, root, client>>

\* A client's query attempts the root lock: with the root cancelled the
\* attempt fails with Cancelled.
ClientLock ==
    /\ client = "none"
    /\ client' = IF root.cancelled THEN "Cancelled" ELSE "ok"
    /\ UNCHANGED <<kq, cn, sw, coll, root>>

\* The client has its answer.
ClientDone ==
    /\ client # "none"
    /\ client' = "none"
    /\ UNCHANGED <<kq, cn, sw, coll, root>>

\* initNew: empty maps, a free mutex, a kernel queue without registrations.
InitKq ==
    /\ kq = [name_to_fd |-> Empty, fd_to_name |-> Empty, lock |-> "free",
             open |-> {}, knotes |-> Empty, ready |-> Empty]
    /\ cn = [pc |-> "idle", n |-> 0, path |-> Empty,
             keventbuf |-> Empty, ret |-> FALSE]
    /\ sw = sw_call(Empty)
    /\ coll = Empty
    /\ root = [cancelled |-> FALSE]
    /\ client = "none"

Init == InitLock /\ InitViewVars /\ InitConc /\ InitKq /\ InitSl

\* ------------------------------------------------------------ specifications

\* Threads taking and releasing the per-root lock in both modes.
NextLock ==
    \/ \E t \in Threads : lock(t) /\ UNCHANGED <<viewVars, concVars, kqVars, slVars>>
    \/ \E t \in Threads : try_lock(t) /\ UNCHANGED <<viewVars, concVars, kqVars, slVars>>
    \/ \E t \in Threads : try_lock_for(t) /\ UNCHANGED <<viewVars, concVars, kqVars, slVars>>
    \/ \E t \in Threads : unlock(t) /\ UNCHANGED <<viewVars, concVars, kqVars, slVars>>
    \/ \E t \in Threads : lock_shared(t) /\ UNCHANGED <<viewVars, concVars, kqVars, slVars>>
    \/ \E t \in Threads : try_lock_shared(t) /\ UNCHANGED <<viewVars, concVars, kqVars, slVars>>
    \/ \E t \in Threads : try_lock_shared_for(t) /\ UNCHANGED <<viewVars, concVars, kqVars, slVars>>
    \/ \E t \in Threads : unlock_shared(t) /\ UNCHANGED <<viewVars, concVars, kqVars, slVars>>

SpecLock == Init /\ [][NextLock]_vars

\* The tree store under the mutations the ingestion pipeline makes through
\* markFileChanged and markDirDeleted, and the reaper.
NextView ==
    \/ \E f \in FileKeys : IngestFileChanged(f) /\ UNCHANGED <<lockVars, concVars, kqVars, slVars>>
    \/ \E f \in FileKeys : IngestFileDeleted(f) /\ UNCHANGED <<lockVars, concVars, kqVars, slVars>>
    \/ \E d \in Dirs, recursive \in BOOLEAN, ord \in Orders :
          IngestDirDeleted(d, recursive, ord) /\ UNCHANGED <<lockVars, concVars, kqVars, slVars>>
    \/ \E minAge \in 0..MaxMinAge : AgeOut(minAge) /\ UNCHANGED <<lockVars, concVars, kqVars, slVars>>
    \/ ClockAdvance /\ UNCHANGED <<lockVars, concVars, kqVars, slVars>>

SpecView == Init /\ [][NextView]_vars

\* The same with clients' queries, each served whole, and its result taken,
\* between two mutations.
NextQuery ==
    \/ \E f \in FileKeys :
          Served /\ ticks < MaxQueryTick /\ IngestFileChanged(f) /\ UNCHANGED <<lockVars, concVars, kqVars, slVars>>
    \/ \E f \in FileKeys :
          Served /\ ticks < MaxQueryTick /\ IngestFileDeleted(f) /\ UNCHANGED <<lockVars, concVars, kqVars, slVars>>
    \/ \E d \in Dirs, recursive \in BOOLEAN, ord \in Orders :
          /\ Served /\ ticks < MaxQueryTick
          /\ IngestDirDeleted(d, recursive, ord) /\ UNCHANGED <<lockVars, concVars, kqVars, slVars>>
    \/ \E minAge \in 0..MaxMinAge :
          Served /\ AgeOut(minAge) /\ UNCHANGED <<lockVars, concVars, kqVars, slVars>>
    \/ Served /\ ClockAdvance /\ UNCHANGED <<lockVars, concVars, kqVars, slVars>>
    \/ \E q \in Queries : Served /\ Query(q) /\ UNCHANGED <<lockVars, concVars, kqVars, slVars>>
    \/ QueryReturn /\ UNCHANGED <<lockVars, concVars, kqVars, slVars>>

SpecQuery == Init /\ [][NextQuery]_vars

\* The tree store under every notification the pipeline ingests, those that
\* find the file's stat fields unchanged included.
NextIngest ==
    \/ NextView
    \/ \E f \in FileKeys : IngestFileUnchanged(f) /\ UNCHANGED <<lockVars, concVars, kqVars, slVars>>

SpecIngest == Init /\ [][NextIngest]_vars

\* An ingestion thread applying file creations while query threads each run
\* {since: 0}, all under the per-root lock.
NextConc ==
    \/ IngLock /\ UNCHANGED <<kqVars, slVars>>
    \/ \E f \in FileKeys : IngCreate(f) /\ UNCHANGED <<kqVars, slVars>>
    \/ IngPublish /\ UNCHANGED <<kqVars, slVars>>
    \/ IngUnlock /\ UNCHANGED <<kqVars, slVars>>
    \/ \E t \in QueryThreads : QResolve(t) /\ UNCHANGED <<kqVars, slVars>>
    \/ \E t \in QueryThreads : QLock(t) /\ UNCHANGED <<kqVars, slVars>>
    \/ \E t \in QueryThreads : QGenerate(t) /\ UNCHANGED <<kqVars, slVars>>
    \/ \E t \in QueryThreads : QUnlock(t) /\ UNCHANGED <<kqVars, slVars>>
    \/ \E t \in QueryThreads : QReturn(t) /\ UNCHANGED <<kqVars, slVars>>

SpecConc == Init /\ [][NextConc]_vars

\* A program that makes, unlocks, swaps, moves, releases and destroys
\* shared_lock objects over one mutex.
NextSl ==
    \/ \E o \in Objs : shared_lock_ctor(o) /\ UNCHANGED <<lockVars, viewVars, concVars, kqVars>>
    \/ \E o \in Objs : shared_lock_unlock_call(o) /\ UNCHANGED <<lockVars, viewVars, concVars, kqVars>>
    \/ \E o \in Objs : shared_lock_dtor(o) /\ UNCHANGED <<lockVars, viewVars, concVars, kqVars>>
    \/ \E o, u \in Objs : shared_lock_swap_call(o, u) /\ UNCHANGED <<lockVars, viewVars, concVars, kqVars>>
    \/ \E o \in Objs : shared_lock_release(o) /\ UNCHANGED <<lockVars, viewVars, concVars, kqVars>>
    \/ released_unlock_shared /\ UNCHANGED <<lockVars, viewVars, concVars, kqVars>>
    \/ \E o, u \in Objs, ptr \in MutexPtrs :
          shared_lock_move_ctor(o, u, ptr) /\ UNCHANGED <<lockVars, viewVars, concVars, kqVars>>
    \/ \E o, u \in Objs : shared_lock_move_assign(o, u) /\ UNCHANGED <<lockVars, viewVars, concVars, kqVars>>

SpecSl == Init /\ [][NextSl]_vars

\* The kqueue watcher: the io thread starting watches, the kernel raising
\* events, the notify thread consuming them, and clients attempting the root
\* lock.
restVars == <<lockVars, viewVars, concVars, slVars>>

NextKq ==
    \/ \E file \in WatchFiles : startWatchFile_lock(file) /\ UNCHANGED restVars
    \/ startWatchFile_lookup /\ UNCHANGED restVars
    \/ \E ok \in BOOLEAN : startWatchFile_open(ok) /\ UNCHANGED restVars
    \/ startWatchFile_lock2 /\ UNCHANGED restVars
    \/ startWatchFile_insert /\ UNCHANGED restVars
    \/ \E ok \in BOOLEAN : startWatchFile_kevent(ok) /\ UNCHANGED restVars
    \/ startWatchFile_lock3 /\ UNCHANGED restVars
    \/ startWatchFile_del /\ UNCHANGED restVars
    \/ \E dir \in WatchDirs, outcome \in {"opendir", "open", "fstat", "replaced", "ok"} :
          startWatchDir_open(dir, outcome) /\ UNCHANGED restVars
    \/ startWatchDir_lock /\ UNCHANGED restVars
    \/ startWatchDir_insert /\ UNCHANGED restVars
    \/ \E ok \in BOOLEAN : startWatchDir_kevent(ok) /\ UNCHANGED restVars
    \/ startWatchDir_lock3 /\ UNCHANGED restVars
    \/ startWatchDir_del /\ UNCHANGED restVars
    \/ \E dir \in WatchDirs : stopWatchDir(dir) /\ UNCHANGED restVars
    \/ \E fd \in Fds, fl \in RaisedFflags : KernelEvent(fd, fl) /\ UNCHANGED restVars
    \/ \E order \in EventOrders(DOMAIN kq.ready) :
          consumeNotify_kevent(order) /\ UNCHANGED restVars
    \/ consumeNotify_cancelled /\ UNCHANGED restVars
    \/ consumeNotify_lock /\ UNCHANGED restVars
    \/ consumeNotify_event /\ UNCHANGED restVars
    \/ consumeNotify_add /\ UNCHANGED restVars
    \/ consumeNotify_return /\ UNCHANGED restVars
    \/ ClientLock /\ UNCHANGED restVars
    \/ ClientDone /\ UNCHANGED restVars

SpecKq == Init /\ [][NextKq]_vars

\* ------------------------------------------------------------------ claims

\* C1: while a writer holds the per-root lock no other thread holds it in
\* either mode, and every thread's own view of what it holds agrees with the
\* lock: exclusive holders are alone, shared holders coexist only with
\* shared holders.
C1_WriterExclusive ==
    /\ rwlock_.writer # {} =>
          Cardinality(rwlock_.writer) = 1 /\ rwlock_.readers = {}
    /\ \A t \in Threads :
          /\ th[t].holds = "excl" <=> t \in rwlock_.writer
          /\ th[t].holds = "shared" <=> t \in rwlock_.readers
    /\ \A t, u \in Threads :
          (t # u /\ th[t].holds = "excl") => th[u].holds = "none"

\* C1 witness: a writer holds the lock, and a reader's and another writer's
\* attempts have just failed against it.
C1_Witness ==
    /\ rwlock_.writer # {}
    /\ \E t \in Threads : th[t].last = "try_lock_shared_for" /\ th[t].ret = FALSE
    /\ \E t \in Threads : th[t].last = "try_lock" /\ th[t].ret = FALSE

Max(S) == CHOOSE x \in S : \A y \in S : y <= x

\* The otime.tick of tracked file f of view V.
OTick(V, f) == V.files[f].otime.tick

\* The files a step stamped: those it began to track or whose otime it set.
Stamped(V, W) ==
    { f \in Tracked(W) : f \notin Tracked(V) \/ W.files[f].otime # V.files[f].otime }

\* C2 as stated: the ticks recorded on the mutated files strictly increase
\* (so no two files are stamped with one tick, and each stamp is above the
\* ticks recorded before), and after every mutation mostRecentTick is the
\* largest otime.tick of the tracked files.
C2_Original ==
    [][ Stamped(view, view') # {} =>
           /\ Cardinality(Stamped(view, view')) = 1
           /\ \A f \in Stamped(view, view') :
                 /\ OTick(view', f) > view.mostRecentTick_
                 /\ \A g \in Tracked(view) : OTick(view', f) > OTick(view, g)
           /\ view'.mostRecentTick_ =
                 Max({ OTick(view', f) : f \in Tracked(view') }) ]_vars

\* C2 as amended: the ticks recorded strictly increase from one mutation to
\* the next, the files one mutation stamps all carry that mutation's tick,
\* and after every mutation that stamps a file mostRecentTick is the largest
\* otime.tick of the tracked files.
C2_TickMonotonic ==
    [][ Stamped(view, view') # {} =>
           /\ \A f \in Stamped(view, view') :
                 /\ OTick(view', f) = ticks'
                 /\ OTick(view', f) > view.mostRecentTick_
                 /\ \A g \in Tracked(view) : OTick(view', f) > OTick(view, g)
           /\ view'.mostRecentTick_ =
                 Max({ OTick(view', f) : f \in Tracked(view') }) ]_vars

\* C2 witness: a recursive markDirDeleted has just stamped a file of the
\* root and the file of the directory below it, which therefore carry one
\* tick.
C2_Witness ==
    /\ last.op = "IngestDirDeleted"
    /\ last.recursive
    /\ \E f, g \in Tracked(view) :
          /\ f[1] = RootDir /\ g[1] = DirD
          /\ OTick(view, f) = view.mostRecentTick_ /\ ~view.files[f].exists
          /\ OTick(view, g) = view.mostRecentTick_ /\ ~view.files[g].exists

\* The query the last step ran was answered by the time generator without
\* being a fresh instance.
TimeQueryRan ==
    /\ last.op = "Query"
    /\ last.query.paths = <<>> /\ last.query.suffixes = <<>>
    /\ last.query.since # -1
    /\ ~last.result.is_fresh_instance

\* C3 as stated: for a cut tick t the time generator visits exactly the
\* tracked files whose otime.tick is above t.
C3_Original ==
    TimeQueryRan =>
        SeqToSet(last.result.walked) =
            { f \in Tracked(view) : OTick(view, f) > last.query.since }

\* C4 as stated: once age_out(min_age) has run, no tombstone older than
\* min_age is left in a files map, in the recency list or in a suffix bucket.
C4_Original ==
    last.op = "AgeOut" =>
        \A f \in FileKeys :
            (f \in Tracked(view) \/ f \in SeqToSet(view.recency)
                \/ \E k \in DOMAIN view.suffixes : f \in SeqToSet(view.suffixes[k]))
            => ~(f \in Tracked(view) /\ Reapable(view, f, now, last.min_age))

\* C5: a since-query whose tick is below last_age_out_tick is answered as a
\* fresh instance, with no file when empty_on_fresh_instance is set; age-out
\* leaves last_age_out_tick at mostRecentTick; and a query since
\* mostRecentTick, when that is the last age-out's tick, is not a fresh
\* instance.
C5_FreshInstance ==
    /\ last.op = "AgeOut" => view.last_age_out_tick = view.mostRecentTick_
    /\ (last.op = "Query" /\ last.query.since # -1) =>
          /\ last.query.since < view.last_age_out_tick =>
                /\ last.result.is_fresh_instance
                /\ last.query.empty_on_fresh_instance => last.result.results = <<>>
          /\ (last.query.since = view.mostRecentTick_
                 /\ view.last_age_out_tick = view.mostRecentTick_) =>
                ~last.result.is_fresh_instance

\* C5 witness: after an age-out that reaped a file, a query whose since tick
\* precedes it, with empty_on_fresh_instance, is answered with no file
\* although the view still tracks one.
C5_Witness ==
    /\ last.op = "Query"
    /\ last.query.since # -1
    /\ last.query.since < view.last_age_out_tick
    /\ last.query.empty_on_fresh_instance
    /\ last.result.is_fresh_instance
    /\ last.result.results = <<>>
    /\ view.recency # <<>>

C7_Original ==
    /\ \A f \in Tracked(view) : OTick(view, f) <= view.mostRecentTick_
    /\ last.op \in {"IngestFileChanged", "IngestFileUnchanged", "IngestFileDeleted"} =>
          /\ OTick(view, last.file) = view.mostRecentTick_
          /\ view.recency # <<>>
          /\ Head(view.recency) = last.file

\* The candidates of the last query that its expression accepts, by their
\* place in the order the generator yielded them.
Accepted ==
    { i \in DOMAIN last.result.walked :
         evaluate(view, last.query.expr, last.result.walked[i]) }

\* C8: with dedup_results no wholename is in the results twice, the results
\* name just the accepted candidates, and num_deduped is the number of
\* accepted candidates less the number of distinct wholenames among them.
C8_Dedup ==
    (last.op = "Query" /\ last.query.dedup_results) =>
        LET res == last.result.results
            names == { Wholename(last.result.walked[i]) : i \in Accepted }
        IN  /\ \A i, j \in DOMAIN res : i # j => res[i].relname # res[j].relname
            /\ { res[i].relname : i \in DOMAIN res } = names
            /\ last.result.num_deduped = Cardinality(Accepted) - Cardinality(names)

\* C8 witness: a query with dedup_results whose generator yielded a file
\* twice and a tombstone its expression rejected, so one occurrence was
\* suppressed.
C8_Witness ==
    /\ last.op = "Query"
    /\ last.query.dedup_results
    /\ last.result.num_deduped >= 1
    /\ last.result.results # <<>>
    /\ Cardinality(Accepted) < Len(last.result.walked)

\* The files of a query result, in the result's order.
ResultFiles(r) == [i \in DOMAIN r.results |-> r.results[i].file]

\* C9: the result of every query that returned holds each file once, holds
\* just the files of a prefix of the creations in the order they were
\* applied, and carries a tick that is no less than the otime.tick of each
\* of its files.
C9_QueryConsistent ==
    \A t \in QueryThreads :
        qs[t].pc = "done" =>
            LET fs == ResultFiles(qs[t].result)
            IN  /\ \A i, j \in DOMAIN fs : i # j => fs[i] # fs[j]
                /\ \E k \in 0..Len(applied) :
                      SeqToSet(fs) = { applied[i] : i \in 1..k }
                /\ \A i \in DOMAIN fs :
                      /\ fs[i] \in Tracked(view)
                      /\ qs[t].result.ticks >= OTick(view, fs[i])

\* C9 witness: a query returned two files after a third creation was
\* applied, while another query returned nothing.
C9_Witness ==
    /\ Len(applied) = 3
    /\ \E t, u \in QueryThreads :
          /\ qs[t].pc = "done" /\ Len(qs[t].result.results) = 2
          /\ qs[u].pc = "done" /\ qs[u].result.results = <<>>

\* C10: the step of consumeNotify that processes an event carrying DELETE,
\* RENAME or REVOKE whose descriptor is the root path's leaves the root
\* cancelled; a cancelled root stays cancelled; and a lock attempt a client
\* starts on a cancelled root fails with Cancelled.
C10_RootCancelled ==
    [][ /\ ( /\ cn.pc = "event"
             /\ cn'.pc # "event"
             /\ Head(cn.keventbuf).ident \in DOMAIN kq.fd_to_name
             /\ kq.fd_to_name[Head(cn.keventbuf).ident] = root_path
             /\ removes(Head(cn.keventbuf).fflags) ) => root'.cancelled
        /\ root.cancelled => root'.cancelled
        /\ (root.cancelled /\ client = "none" /\ client' # "none")
              => client' = "Cancelled" ]_vars

\* C10 witness: consumeNotify returned from a RENAME of the root, which is
\* cancelled, and a client's lock attempt has failed with Cancelled.
C10_Witness ==
    /\ root.cancelled
    /\ client = "Cancelled"
    /\ cn.pc = "idle" /\ cn.keventbuf # Empty
    /\ Head(cn.keventbuf).udata.name = root_path
    /\ Head(cn.keventbuf).fflags = {"NOTE_RENAME"}

\* The event consumeNotify holds the mutex for, its path in fd_to_name, and
\* the step that processes it.
CurrentEvent == Head(cn.keventbuf)

Tracks(K, fd) == fd \in DOMAIN K.fd_to_name

ProcessesEvent == cn.pc = "event" /\ cn'.pc # "event"

\* C11: the step of consumeNotify that processes an event carrying DELETE,
\* RENAME or REVOKE for a tracked path other than the root leaves the path
\* out of name_to_fd, the descriptor out of fd_to_name and out of the kernel
\* queue, and goes on to add the path; the add puts the path in the pending
\* collection.
C11_WatchRemoved ==
    [][ /\ ( /\ ProcessesEvent
             /\ Tracks(kq, CurrentEvent.ident)
             /\ kq.fd_to_name[CurrentEvent.ident] # root_path
             /\ removes(CurrentEvent.fflags) )
           => /\ kq.fd_to_name[CurrentEvent.ident] \notin DOMAIN kq'.name_to_fd
              /\ ~Tracks(kq', CurrentEvent.ident)
              /\ CurrentEvent.ident \notin DOMAIN kq'.knotes
              /\ cn'.pc = "add"
              /\ cn'.path = kq.fd_to_name[CurrentEvent.ident]
        /\ (cn.pc = "add" /\ cn'.pc # "add") => cn.path \in DOMAIN coll' ]_vars

\* C11 witness: consumeNotify has processed a DELETE of the watched file and
\* is about to add it: the file is in neither map, its descriptor is closed
\* and the root's watch remains.
C11_Witness ==
    /\ cn.pc = "add" /\ cn.path = <<"r", "f">>
    /\ CurrentEvent.fflags = {"NOTE_DELETE"}
    /\ DOMAIN kq.name_to_fd = {root_path}
    /\ ~Tracks(kq, CurrentEvent.ident)
    /\ CurrentEvent.ident \notin kq.open

\* C12 as stated: every return of consumeNotify gives true exactly when
\* kevent delivered at least one event to the call.
C12_Original ==
    [][ (cn.pc # "idle" /\ cn'.pc = "idle") => (cn'.ret <=> cn.n > 0) ]_vars

\* C13 as stated: when stopWatchDir has returned, no entry of either map is
\* for the directory and no descriptor opened for it is still open, the
\* registered ones included.
C13_Original ==
    (sw.pc = "idle" /\ sw.ret = "void") =>
        /\ sw.path \notin DOMAIN kq.name_to_fd
        /\ \A fd \in DOMAIN kq.fd_to_name : kq.fd_to_name[fd] # sw.path
        /\ \A fd \in DOMAIN kq.knotes : kq.knotes[fd].udata.name # sw.path

\* C14: startWatchFile on a file whose full name is in name_to_fd returns
\* true, and from its call to its return it changes nothing of the watcher
\* but the mutex, which it takes and releases: no descriptor is opened and
\* both maps and the kernel queue are as before.
C14_AlreadyWatched ==
    [][ /\ (sw.pc = "idle" /\ sw'.pc = "f_lookup")
              => kq' = [kq EXCEPT !.lock = "io"]
        /\ ( /\ sw.pc = "f_lookup" /\ sw'.pc # "f_lookup"
             /\ sw.path \in DOMAIN kq.name_to_fd )
              => /\ sw'.pc = "idle" /\ sw'.ret = "true"
                 /\ kq' = [kq EXCEPT !.lock = "free"] ]_vars

\* C14 witness: startWatchFile holds the mutex for its lookup of a file that
\* an earlier call has mapped and registered.
C14_Witness ==
    /\ sw.pc = "f_lookup"
    /\ sw.path \in DOMAIN kq.name_to_fd
    /\ kq.name_to_fd[sw.path] \in DOMAIN kq.knotes
    /\ kq.knotes[kq.name_to_fd[sw.path]].udata.name = sw.path

\* C15: a call of startWatchDir whose opendir or open failed, or that found
\* the directory replaced between the two, returns null with the error
\* handler invoked; and every call that returns null leaves the maps, the
\* open descriptors and the kernel queue as they were, with its directory
\* handle closed.
C15_NullReturn ==
    [][ (sw.pc = "idle" /\ sw' # sw)
          => /\ sw'.opened \in {"opendir", "open", "replaced"}
                   => /\ sw'.pc = "idle" /\ sw'.ret = "null"
                      /\ sw'.handled # "none"
             /\ sw'.ret = "null" => kq' = kq /\ ~sw'.osdir ]_vars

\* C15 witness: with the root watched, a second startWatchDir found the
\* directory replaced, invoked the handler and returned null; the one
\* descriptor open is the watch's.
C15_Witness ==
    /\ sw.pc = "idle" /\ sw.ret = "null"
    /\ sw.opened = "replaced" /\ sw.handled = "open" /\ ~sw.osdir
    /\ root_path \in DOMAIN kq.name_to_fd
    /\ kq.open = {kq.name_to_fd[root_path]}

\* The files linked in the bucket of suffix s, as a list.
Bucket(V, s) == IF s \in DOMAIN V.suffixes THEN V.suffixes[s] ELSE << >>

\* C16: a file is linked in the bucket of a suffix exactly when that is the
\* lower-case suffix of its name and the view tracks the file, existing or
\* tombstone; no bucket holds a file twice, and no bucket is kept for names
\* without a suffix.
C16_SuffixMembership ==
    /\ <<>> \notin DOMAIN view.suffixes
    /\ \A s \in (DOMAIN view.suffixes \cup { SuffixOf(f[2]) : f \in FileKeys }) \ {<<>>} :
          /\ \A f \in FileKeys :
                f \in SeqToSet(Bucket(view, s))
                   <=> (SuffixOf(f[2]) = s /\ f \in Tracked(view))
          /\ \A i, j \in DOMAIN Bucket(view, s) :
                i # j => Bucket(view, s)[i] # Bucket(view, s)[j]

\* C16 witness: after an age-out that reaped a file, the bucket of "c" holds
\* b.C alone, a tombstone that has been marked more than once.
C16_Witness ==
    /\ view.last_age_out_tick > 0
    /\ Bucket(view, SuffixC) = << <<RootDir, <<"b", ".", "C">>>> >>
    /\ ~view.files[<<RootDir, <<"b", ".", "C">>>>].exists
    /\ OTick(view, <<RootDir, <<"b", ".", "C">>>>)
          > view.files[<<RootDir, <<"b", ".", "C">>>>].ctime.tick + 1
    /\ <<RootDir, <<"a", ".", "c">>>> \notin Tracked(view)

\* The descriptors registered with the kernel queue.
Registered(K) == DOMAIN K.knotes

\* C17: every descriptor registered with the kernel queue has its path in
\* fd_to_name, the path it was registered for; so an event that finds no
\* entry in fd_to_name is one of a descriptor that is not registered.
C17_MappingBeforeRegistration ==
    /\ \A fd \in Registered(kq) :
          Tracks(kq, fd) /\ kq.fd_to_name[fd] = kq.knotes[fd].udata.name
    /\ (cn.pc = "event" /\ ~Tracks(kq, CurrentEvent.ident))
          => CurrentEvent.ident \notin Registered(kq)

\* C17 witness: consumeNotify looks up the event of a registered descriptor
\* while startWatchFile has inserted another descriptor's mapping and has not
\* registered it yet.
C17_Witness ==
    /\ cn.pc = "event"
    /\ CurrentEvent.ident \in Registered(kq)
    /\ Tracks(kq, CurrentEvent.ident)
    /\ sw.pc = "f_kevent"
    /\ sw.fd # CurrentEvent.ident
    /\ Tracks(kq, sw.fd)
    /\ sw.fd \notin Registered(kq)

\* The places of the io thread between pthread_mutex_lock and
\* pthread_mutex_unlock, where it reads or writes the two maps.
IoHolds == {"f_lookup", "f_insert", "f_del", "d_insert", "d_del"}

\* The places where the io thread waits for the mutex inside a call, the
\* root's write lock held by its caller.
IoWaits == {"f_lock", "f_unlock", "d_lock", "d_unlock"}

\* The step with which the holder of the mutex goes on to its unlock.
HolderStep ==
    \/ startWatchFile_lookup
    \/ startWatchFile_insert
    \/ startWatchFile_del
    \/ startWatchDir_insert
    \/ startWatchDir_del
    \/ consumeNotify_event

\* C18: the io thread holds the watcher mutex exactly at its map accesses and
\* consumeNotify exactly at its lookup and removal, so both return with the
\* mutex released; the holder can always take its next step, the root
\* cancellation included, so no thread waits for the mutex for ever; and the
\* two maps change only in steps that begin with the mutex held.
C18_MutexDiscipline ==
    /\ []( /\ sw.pc \in IoHolds <=> kq.lock = "io"
           /\ cn.pc = "event" <=> kq.lock = "notify"
           /\ ~mutex_free => ENABLED HolderStep )
    /\ [][ (kq'.name_to_fd # kq.name_to_fd \/ kq'.fd_to_name # kq.fd_to_name)
             => ~mutex_free /\ kq'.lock = "free" ]_vars

\* C18 witness: consumeNotify holds the mutex at an event that removes the
\* root, about to cancel the root, while the io thread waits for the mutex
\* inside startWatchFile or startWatchDir.
C18_Witness ==
    /\ cn.pc = "event"
    /\ kq.lock = "notify"
    /\ Tracks(kq, CurrentEvent.ident)
    /\ root_removed(CurrentEvent.fflags, kq.fd_to_name[CurrentEvent.ident])
    /\ sw.pc \in IoWaits

\* The file entities a step from view V to view W removed: the keys gone
\* from some directory's files map and the files gone from the recency list.
Removed(V, W) ==
    (Tracked(V) \ Tracked(W)) \cup (SeqToSet(V.recency) \ SeqToSet(W.recency))

\* C19: a step that removes a file entity is an age-out; every other
\* mutation and every query leaves the keys of every directory's files map
\* and the files of the recency list as they were or adds to them. A
\* directory deletion leaves each file of the directory in its parent's map
\* and in the recency list, a tombstone stamped with the step's tick.
C19_OnlyAgeOutRemoves ==
    [][ /\ Removed(view, view') # {} => last'.op = "AgeOut"
        /\ (last' # last /\ last'.op = "IngestDirDeleted")
              => \A f \in FilesOf(view, last'.dir) :
                    /\ f \in Tracked(view')
                    /\ f \in SeqToSet(view'.recency)
                    /\ ~view'.files[f].exists
                    /\ OTick(view', f) = ticks' ]_vars

\* C19 witness: the recursive deletion of the root directory has just
\* stamped x, a file of the directory below it, which is still in its
\* parent's map and in the recency list as a tombstone.
C19_Witness ==
    /\ last.op = "IngestDirDeleted"
    /\ last.dir = RootDir
    /\ last.recursive
    /\ <<DirD, <<"x">>>> \in Tracked(view)
    /\ <<DirD, <<"x">>>> \in SeqToSet(view.recency)
    /\ ~view.files[<<DirD, <<"x">>>>].exists
    /\ OTick(view, <<DirD, <<"x">>>>) = ticks
    /\ view.files[<<DirD, <<"x">>>>].ctime.tick < ticks

\* C20 as stated: whenever the watcher mutex is free, name_to_fd maps path p
\* to descriptor d exactly when fd_to_name maps d to p.
C20_Original ==
    mutex_free =>
        \A p \in WatchDirs \cup { w_dir_path_cat_str(f.parent, f.name) : f \in WatchFiles },
           d \in Fds :
            (p \in DOMAIN kq.name_to_fd /\ kq.name_to_fd[p] = d)
                <=> (d \in DOMAIN kq.fd_to_name /\ kq.fd_to_name[d] = p)

\* The path is being watched: name_to_fd maps it to an open descriptor that
\* fd_to_name maps back to it and that is registered with the kernel queue.
Watched(K, path) ==
    /\ path \in DOMAIN K.name_to_fd
    /\ K.name_to_fd[path] \in K.open
    /\ Tracks(K, K.name_to_fd[path])
    /\ K.fd_to_name[K.name_to_fd[path]] = path
    /\ K.name_to_fd[path] \in Registered(K)

\* C21 as stated: when startWatchFile returns true or startWatchDir returns
\* its directory handle, the path is being watched at that return, also when
\* the registration with the kernel queue failed.
C21_Original ==
    [][ (sw.pc # "idle" /\ sw'.pc = "idle" /\ sw'.ret \in {"true", "osdir"})
           => Watched(kq', sw'.path) ]_vars

\* The descriptor kqueue_del_key closes when w_ht_del takes the name out of
\* name_to_fd: the one the table holds for it, if any.
DelKeyCloses(K, name) ==
    IF name \in DOMAIN K.name_to_fd THEN {K.name_to_fd[name]} ELSE {}

\* C23 as stated: no descriptor is closed a second time. Each close of a
\* step acts on an open descriptor: the explicit close after a failed
\* registration, the close by kqueue_del_key when the failure path deletes
\* the name_to_fd entry, and the close by kqueue_del_key in consumeNotify's
\* watch removal.
C23_Original ==
    [][ /\ (sw.pc \in {"f_kevent", "d_kevent"} /\ sw'.pc \in {"f_unlock", "d_unlock"})
              => sw.fd \in kq.open
        /\ (sw.pc \in {"f_del", "d_del"} /\ sw'.pc = "idle")
              => DelKeyCloses(kq, sw.path) \subseteq kq.open
        /\ (cn.pc = "event" /\ cn'.pc = "add" /\ removes(CurrentEvent.fflags))
              => DelKeyCloses(kq, cn'.path) \subseteq kq.open ]_vars

\* The live shared_lock objects with owns_lock() == true.
Owners(S) == { o \in Objs : S.obj[o].live /\ S.obj[o].owned_ }

\* C22: the mutex's shared holds are as many as the live objects that own
\* their lock plus the holds handed out by release(), and an owning object
\* points at the mutex; a step that gives up a hold gives up exactly one,
\* either that of one object that owned it and no longer does, or one that
\* release() had handed to its caller.
C22_HoldAccounting ==
    /\ []( /\ sl.holds = Cardinality(Owners(sl)) + sl.handed
           /\ \A o \in Owners(sl) : sl.obj[o].m_ = "m" )
    /\ [][ sl'.holds < sl.holds
             => /\ sl'.holds = sl.holds - 1
                /\ \/ /\ sl'.handed = sl.handed
                      /\ \E o \in Owners(sl) : Owners(sl') = Owners(sl) \ {o}
                   \/ /\ sl'.handed = sl.handed - 1
                      /\ Owners(sl') = Owners(sl) ]_vars

\* C22 witness: one object owns a hold, another is a moved-from object left
\* with a wild m_ and no hold, a third has been destroyed, and one hold is
\* out with the caller of release().
C22_Witness ==
    /\ sl.handed = 1
    /\ sl.holds = 2
    /\ \E o, u, v \in Objs :
          /\ Owners(sl) = {o}
          /\ sl.obj[u].live /\ sl.obj[u].m_ = "wild"
          /\ ~sl.obj[v].live

====
